---- MODULE Spec2Model ----
(***************************************************************************)
(* SystemMonitor (src/src/lib.rs): a facade over the sysinfo crate with    *)
(* two build variants.  On a native target the monitor owns a              *)
(* sysinfo::System, a refreshable cache of the operating system's memory,  *)
(* CPU and process state; on wasm32 it owns nothing and every query        *)
(* returns a literal.                                                      *)
(*                                                                         *)
(* The operating system is the environment: its memory counters, CPU       *)
(* cores, mounts, process table and identity change between the monitor's  *)
(* calls.  A call is one atomic step (the monitor is synchronous and       *)
(* single-threaded).                                                       *)
(*                                                                         *)
(* Abstractions.  u64 is the range 0..MaxBytes, with wrap-around modulo    *)
(* MaxBytes + 1 where the source would wrap.  f64 is an exact non-negative *)
(* rational, NaN or +infinity: rounding is left out (it is monotone, so    *)
(* it preserves the order facts stated below).  A JSON text is its parsed  *)
(* document: an object with its members or an array with its elements.     *)
(***************************************************************************)
EXTENDS Integers, Sequences, TLC

\* ------------------------------------------------------------------ bounds
\* Largest byte count (the model's u64 is 0..MaxBytes).
MaxBytes == 2
\* Most logical cores of a host.
MaxCores == 2
\* Highest load level of a core.
MaxLoad == 1
\* Most mounts the operating system has at a time.
MaxDisks == 2
\* Highest version of the process table.
MaxProcs == 1
\* Highest uptime in seconds.
MaxUptime == 1

VARIABLES
    target,      \* "native" or "wasm32": the build's target_arch
    scenario,    \* which part of the operating system the environment varies
    serializer,  \* "infallible" or "fallible": may serde_json::to_string fail
    os,          \* the operating system's state (the sysinfo collaborator's source)
    sys,         \* SystemMonitor.sys, the sysinfo::System cache; NoSys on wasm32
    call         \* the last completed call of the caller and what it returned

vars == <<target, scenario, serializer, os, sys, call>>

\* ------------------------------------------------------------------ u64, f64
U64 == 0..MaxBytes

\* u64::wrapping_sub, the subtraction `total - available` would be in release builds.
wrapping_sub(a, b) == (a - b) % (MaxBytes + 1)

\* u64::saturating_sub
saturating_sub(a, b) == IF a >= b THEN a - b ELSE 0

\* The greatest common divisor of n >= 0 and d >= 1.
Gcd(n, d) ==
    CHOOSE g \in 1..d :
        /\ n % g = 0 /\ d % g = 0
        /\ \A h \in (g + 1)..d : ~(n % h = 0 /\ d % h = 0)

NaN == [cls |-> "nan"]
Infinity == [cls |-> "inf"]
\* The finite non-negative f64 n/d (d >= 1), in lowest terms.
Finite(n, d) == LET g == Gcd(n, d) IN [cls |-> "finite", num |-> n \div g, den |-> d \div g]

\* The literal 0.0
F64Zero == Finite(0, 1)
\* The literal 100.0
F64Hundred == Finite(100, 1)

\* `x as f64`
AsF64(x) == Finite(x, 1)

\* f64 division of non-negative operands: x/0 is +inf and 0/0 is NaN, never a panic.
F64Div(a, b) ==
    IF a.cls = "nan" \/ b.cls = "nan" THEN NaN
    ELSE IF a.cls = "inf" THEN (IF b.cls = "inf" THEN NaN ELSE Infinity)
    ELSE IF b.cls = "inf" THEN F64Zero
    ELSE IF b.num = 0 THEN (IF a.num = 0 THEN NaN ELSE Infinity)
    ELSE Finite(a.num * b.den, a.den * b.num)

\* f64 multiplication of non-negative operands.
F64Mul(a, b) ==
    IF a.cls = "nan" \/ b.cls = "nan" THEN NaN
    ELSE IF a.cls = "inf" THEN (IF b.num = 0 THEN NaN ELSE Infinity)
    ELSE IF b.cls = "inf" THEN (IF a.num = 0 THEN NaN ELSE Infinity)
    ELSE Finite(a.num * b.num, a.den * b.den)

\* x >= 0.0 && x <= 100.0 (false of NaN and of infinity)
InPercentRange(x) == x.cls = "finite" /\ 0 <= x.num /\ x.num <= 100 * x.den

\* ------------------------------------------------------------------ Option, Result
None == [some |-> FALSE]
Some(v) == [some |-> TRUE, val |-> v]
Ok(v) == [ok |-> TRUE, val |-> v]
Err == [ok |-> FALSE]

\* Option::unwrap_or_else(|| "Unknown".to_string())
unwrap_or_unknown(opt) == IF opt.some THEN opt.val ELSE "Unknown"

\* ------------------------------------------------------------------ JSON
JsonObject(members) == [kind |-> "object", members |-> members]
JsonArray(elements) == [kind |-> "array", elements |-> elements]
\* The text "{}"
EmptyObject == JsonObject(<<>>)
\* The text "[]"
EmptyArray == JsonArray(<<>>)
\* The text "" (String::default()), which is no JSON document
EmptyText == [kind |-> "none"]

\* What serde_json::to_string may return: Ok, or Err where the serializer can fail.
to_string(doc) == IF serializer = "fallible" THEN {Ok(doc), Err} ELSE {Ok(doc)}

\* Result::unwrap_or_default(): the empty text on Err.
unwrap_or_default(res, fallback) == IF res.ok THEN res.val ELSE EmptyText

\* Result::unwrap_or_else(|_| fallback.to_string())
unwrap_or_else(res, fallback) == IF res.ok THEN res.val ELSE fallback

\* ------------------------------------------------------------------ the operating system
Mem(t, u, a) == [total |-> t, used |-> u, available |-> a]
AllMemory == {Mem(t, u, a) : t \in U64, u \in U64, a \in U64}

\* A core at load level l: its usage is l and its frequency scales with the load.
Core(i, l) == [name |-> "cpu" \o ToString(i - 1), usage |-> l, frequency |-> l + 1]
CpuList(loads) == [i \in 1..Len(loads) |-> Core(i, loads[i])]
AllCpuLists == UNION {{CpuList(loads) : loads \in [1..n -> 0..MaxLoad]} : n \in 0..MaxCores}

\* An OsStr: its text, or the valid prefix of it when it is not UTF-8.
OsStr(text, utf8) == [text |-> text, utf8 |-> utf8]

\* The i-th mount; the names of the even mounts are not valid UTF-8.
Mount(i, t, a) ==
    [name |-> OsStr("disk" \o ToString(i), i % 2 = 1),
     mount_point |-> OsStr("/mnt/" \o ToString(i), TRUE),
     total_space |-> t, available_space |-> a]
AllMounts(i) == {Mount(i, t, a) : t \in U64, a \in U64}
RECURSIVE DiskListsOfLen(_)
DiskListsOfLen(n) ==
    IF n = 0 THEN {<<>>}
    ELSE {Append(ds, m) : ds \in DiskListsOfLen(n - 1), m \in AllMounts(n)}
AllDiskLists == UNION {DiskListsOfLen(n) : n \in 0..MaxDisks}

Ident(name, version, kernel, host, up) ==
    [name |-> name, os_version |-> version, kernel_version |-> kernel,
     host_name |-> host, uptime |-> up]
AllIdents ==
    {Ident(n, v, k, h, 0) : n \in {None, Some("Linux")}, v \in {None, Some("6.1")},
                            k \in {None, Some("6.1.0-18")}, h \in {None, Some("host")}}

\* What the parts the environment leaves alone hold throughout a behaviour.
DefaultMemory == Mem(MaxBytes, 1, 1)
DefaultCpus == CpuList([i \in 1..MaxCores |-> 0])
DefaultDisks == <<Mount(1, MaxBytes, 1)>>
DefaultIdent == Ident(Some("Linux"), Some("6.1"), Some("6.1.0-18"), Some("host"), 0)

Scenarios == {"memory", "cpu", "disks", "processes", "identity", "mixed"}

\* The values the environment gives each part: every value in the scenario of that
\* part, two values in the mixed scenario (where several parts change in one
\* behaviour), the default elsewhere.
MemoryValues(sc) ==
    IF sc = "memory" THEN AllMemory
    ELSE IF sc = "mixed" THEN {DefaultMemory, Mem(MaxBytes, MaxBytes, 0)}
    ELSE {DefaultMemory}
CpuValues(sc) ==
    IF sc = "cpu" THEN AllCpuLists
    ELSE IF sc = "mixed" THEN {DefaultCpus, CpuList([i \in 1..MaxCores |-> MaxLoad])}
    ELSE {DefaultCpus}
DiskValues(sc) ==
    IF sc = "disks" THEN AllDiskLists
    ELSE IF sc = "mixed" THEN {DefaultDisks, <<>>}
    ELSE {DefaultDisks}
ProcValues(sc) ==
    IF sc \in {"processes", "mixed"} THEN 0..MaxProcs ELSE {0}
IdentValues(sc) ==
    IF sc = "identity" THEN AllIdents ELSE {DefaultIdent}

OsStates(sc) ==
    [mem : MemoryValues(sc), cpus : CpuValues(sc), disks : DiskValues(sc),
     procs : ProcValues(sc), ident : IdentValues(sc)]

\* ------------------------------------------------------------------ sysinfo::System
\* SystemMonitor on wasm32 has no field.
NoSys == [wasm32 |-> TRUE]

\* System::new_all(): everything loaded.
new_all(o) == [mem |-> o.mem, cpus |-> o.cpus, procs |-> o.procs]

\* System::refresh_all(): memory, CPUs and processes.
refresh_all(s, o) == [mem |-> o.mem, cpus |-> o.cpus, procs |-> o.procs]

\* A refresh_memory() that refreshes everything.
refresh_memory_full(s, o) == refresh_all(s, o)

\* System::refresh_memory()
refresh_memory(s, o) == [s EXCEPT !.mem = o.mem]

\* A refresh_cpu_all() left out: the cache is read as it is.
refresh_cpu_all_skipped(s, o) == s

\* System::refresh_cpu_all()
refresh_cpu_all(s, o) == [s EXCEPT !.cpus = o.cpus]

\* Disks::new_with_refreshed_list(): the mounts of the moment, in the OS's order.
new_with_refreshed_list(o) == o.disks

\* ------------------------------------------------------------------ the records
\* The SystemInfo of get_system_info: the identity read from the OS at the call,
\* the core count and the memory from the cache.
SystemInfo(s, o) ==
    [os |-> unwrap_or_unknown(o.ident.name),
     os_version |-> unwrap_or_unknown(o.ident.os_version),
     kernel_version |-> unwrap_or_unknown(o.ident.kernel_version),
     hostname |-> unwrap_or_unknown(o.ident.host_name),
     cpu_count |-> Len(s.cpus),
     total_memory |-> s.mem.total,
     used_memory |-> s.mem.used,
     uptime |-> o.ident.uptime]

\* The usage percent of get_memory_info with the guard `total >= 0`.
memory_usage_percent_unguarded ==
    [total \in U64, used \in U64 |->
        IF total >= 0 THEN F64Mul(F64Div(AsF64(used), AsF64(total)), F64Hundred)
        ELSE F64Zero]

\* let usage_percent = if total > 0 { (used as f64 / total as f64) * 100.0 } else { 0.0 };
\* as a function of the two counters.
memory_usage_percent ==
    [total \in U64, used \in U64 |->
        IF total > 0 THEN F64Mul(F64Div(AsF64(used), AsF64(total)), F64Hundred)
        ELSE F64Zero]

\* The MemoryInfo of get_memory_info, read from the cache.
MemoryInfo(s) ==
    [total |-> s.mem.total, used |-> s.mem.used, available |-> s.mem.available,
     usage_percent |-> memory_usage_percent[s.mem.total, s.mem.used]]

\* The usage percent of a mount in list_disks, as a function of its two counters:
\* let used = total.saturating_sub(available);
\* let usage_percent = if total > 0 { (used as f64 / total as f64) * 100.0 } else { 0.0 };
disk_usage_percent ==
    [total \in U64, available \in U64 |->
        LET used == saturating_sub(total, available)
        IN  IF total > 0 THEN F64Mul(F64Div(AsF64(used), AsF64(total)), F64Hundred)
            ELSE F64Zero]

\* OsStr::to_string_lossy().to_string(): the text of a valid name; the replacement
\* character U+FFFD in the place of what is not UTF-8.
to_string_lossy(name) == IF name.utf8 THEN name.text ELSE name.text \o "<U+FFFD>"

\* The closure of list_disks: one DiskInfo of one mount.
DiskInfo(disk) ==
    [name |-> to_string_lossy(disk.name),
     mount_point |-> to_string_lossy(disk.mount_point),
     total_space |-> disk.total_space,
     available_space |-> disk.available_space,
     usage_percent |-> disk_usage_percent[disk.total_space, disk.available_space]]

\* disks.iter().map(..).collect()
disk_infos(disks) == [i \in 1..Len(disks) |-> DiskInfo(disks[i])]

\* The closure of get_cpu_info: one CpuInfo of one core.
CpuInfo(cpu) == [name |-> cpu.name, usage |-> cpu.usage, frequency |-> cpu.frequency]

\* A collect() that loses the last core.
cpu_infos_but_last(cpus) == [i \in 1..(Len(cpus) - 1) |-> CpuInfo(cpus[i])]

\* self.sys.cpus().iter().map(..).collect()
cpu_infos(cpus) == [i \in 1..Len(cpus) |-> CpuInfo(cpus[i])]

\* The literal get_system_info returns on wasm32.
WasmSystemInfo ==
    JsonObject([os |-> "WASM", os_version |-> "N/A", kernel_version |-> "N/A",
                hostname |-> "browser", cpu_count |-> 0, total_memory |-> 0,
                used_memory |-> 0, uptime |-> 0])

\* The literal get_memory_info returns on wasm32.
WasmMemoryInfo ==
    JsonObject([total |-> 0, used |-> 0, available |-> 0, usage_percent |-> F64Zero])

\* ------------------------------------------------------------------ the calls
Targets == {"native", "wasm32"}

\* What new() and refresh() return.
Unit == [kind |-> "unit"]

\* A completed call: the operation, what it returned, whether serialization failed
\* in it, and whether the part of the cache it refreshes differed from the OS when
\* it began.
Returned(op, ret, failed, stale) == [op |-> op, ret |-> ret, failed |-> failed, stale |-> stale]

\* No call has completed since the operating system last changed.
Idle == [op |-> "none", ret |-> Unit, failed |-> FALSE, stale |-> FALSE]

\* SystemMonitor::new()
SystemMonitor_new(t, o) == IF t = "native" THEN refresh_all(new_all(o), o) ELSE NoSys

new ==
    /\ sys' = SystemMonitor_new(target, os)
    /\ call' = Returned("new", Unit, FALSE, FALSE)
    /\ UNCHANGED <<target, scenario, serializer, os>>

refresh_native ==
    /\ target = "native"
    /\ sys' = refresh_all(sys, os)
    /\ call' = Returned("refresh", Unit, FALSE, sys # new_all(os))
    /\ UNCHANGED <<target, scenario, serializer, os>>

refresh_wasm32 ==
    /\ target = "wasm32"
    /\ call' = Returned("refresh", Unit, FALSE, FALSE)
    /\ UNCHANGED <<target, scenario, serializer, os, sys>>

refresh == refresh_native \/ refresh_wasm32

get_system_info_native ==
    /\ target = "native"
    /\ LET refreshed == refresh_all(sys, os)
           info == SystemInfo(refreshed, os)
       IN  \E res \in to_string(JsonObject(info)) :
               /\ sys' = refreshed
               /\ call' = Returned("get_system_info", unwrap_or_else(res, EmptyObject),
                                   ~res.ok, sys # new_all(os))
    /\ UNCHANGED <<target, scenario, serializer, os>>

get_system_info_wasm32 ==
    /\ target = "wasm32"
    /\ call' = Returned("get_system_info", WasmSystemInfo, FALSE, FALSE)
    /\ UNCHANGED <<target, scenario, serializer, os, sys>>

get_system_info == get_system_info_native \/ get_system_info_wasm32

\* get_memory_info building its record before it refreshes.
get_memory_info_read_first ==
    /\ target = "native"
    /\ LET info == MemoryInfo(sys)
       IN  \E res \in to_string(JsonObject(info)) :
               /\ sys' = refresh_memory(sys, os)
               /\ call' = Returned("get_memory_info", unwrap_or_else(res, EmptyObject),
                                   ~res.ok, sys.mem # os.mem)
    /\ UNCHANGED <<target, scenario, serializer, os>>

get_memory_info_native ==
    /\ target = "native"
    /\ LET refreshed == refresh_memory(sys, os)
           info == MemoryInfo(refreshed)
       IN  \E res \in to_string(JsonObject(info)) :
               /\ sys' = refreshed
               /\ call' = Returned("get_memory_info", unwrap_or_else(res, EmptyObject),
                                   ~res.ok, sys.mem # os.mem)
    /\ UNCHANGED <<target, scenario, serializer, os>>

\* get_memory_info on wasm32 without its cfg gate: the OS's counters, read directly.
get_memory_info_ungated ==
    /\ target = "wasm32"
    /\ call' = Returned("get_memory_info", JsonObject(MemoryInfo([mem |-> os.mem])),
                        FALSE, FALSE)
    /\ UNCHANGED <<target, scenario, serializer, os, sys>>

get_memory_info_wasm32 ==
    /\ target = "wasm32"
    /\ call' = Returned("get_memory_info", WasmMemoryInfo, FALSE, FALSE)
    /\ UNCHANGED <<target, scenario, serializer, os, sys>>

get_memory_info == get_memory_info_native \/ get_memory_info_wasm32

\* list_disks with a refresh_all() before the enumeration.
list_disks_refreshing ==
    /\ target = "native"
    /\ LET infos == disk_infos(new_with_refreshed_list(os))
       IN  \E res \in to_string(JsonArray(infos)) :
               call' = Returned("list_disks", unwrap_or_else(res, EmptyArray), ~res.ok, FALSE)
    /\ sys' = refresh_all(sys, os)
    /\ UNCHANGED <<target, scenario, serializer, os>>

list_disks_native ==
    /\ target = "native"
    /\ LET infos == disk_infos(new_with_refreshed_list(os))
       IN  \E res \in to_string(JsonArray(infos)) :
               call' = Returned("list_disks", unwrap_or_else(res, EmptyArray), ~res.ok, FALSE)
    /\ UNCHANGED <<target, scenario, serializer, os, sys>>

list_disks_wasm32 ==
    /\ target = "wasm32"
    /\ call' = Returned("list_disks", EmptyArray, FALSE, FALSE)
    /\ UNCHANGED <<target, scenario, serializer, os, sys>>

list_disks == list_disks_native \/ list_disks_wasm32

get_cpu_info_native ==
    /\ target = "native"
    /\ LET refreshed == refresh_cpu_all(sys, os)
           infos == cpu_infos(refreshed.cpus)
       IN  \E res \in to_string(JsonArray(infos)) :
               /\ sys' = refreshed
               /\ call' = Returned("get_cpu_info", unwrap_or_else(res, EmptyArray),
                                   ~res.ok, sys.cpus # os.cpus)
    /\ UNCHANGED <<target, scenario, serializer, os>>

get_cpu_info_wasm32 ==
    /\ target = "wasm32"
    /\ call' = Returned("get_cpu_info", EmptyArray, FALSE, FALSE)
    /\ UNCHANGED <<target, scenario, serializer, os, sys>>

get_cpu_info == get_cpu_info_native \/ get_cpu_info_wasm32

\* ------------------------------------------------------------------ the environment
\* The operating system changes between two calls; the caller holds no fresh result.
OsBecomes(o) ==
    /\ os' = o
    /\ call' = Idle
    /\ UNCHANGED <<target, scenario, serializer, sys>>

\* One counter of the memory changes, or (mixed scenario) the whole sample.
OsMemoryChange ==
    \/ /\ scenario = "memory"
       /\ \E v \in U64 :
              \/ v # os.mem.total /\ OsBecomes([os EXCEPT !.mem.total = v])
              \/ v # os.mem.used /\ OsBecomes([os EXCEPT !.mem.used = v])
              \/ v # os.mem.available /\ OsBecomes([os EXCEPT !.mem.available = v])
    \/ /\ scenario = "mixed"
       /\ \E m \in MemoryValues(scenario) \ {os.mem} : OsBecomes([os EXCEPT !.mem = m])

\* The load of one core changes, or (mixed scenario) of all of them; the cores of
\* a host stay the same.
OsCpuChange ==
    \/ /\ scenario = "cpu"
       /\ \E i \in 1..Len(os.cpus), l \in 0..MaxLoad :
              /\ l # os.cpus[i].usage
              /\ OsBecomes([os EXCEPT !.cpus[i] = Core(i, l)])
    \/ /\ scenario = "mixed"
       /\ \E c \in CpuValues(scenario) \ {os.cpus} : OsBecomes([os EXCEPT !.cpus = c])

\* One mount appears at the end, the last one disappears or one changes its space;
\* in the mixed scenario the only mount comes and goes.
OsDiskChange ==
    \/ /\ scenario = "disks"
       /\ \/ /\ Len(os.disks) < MaxDisks
             /\ \E m \in AllMounts(Len(os.disks) + 1) :
                    OsBecomes([os EXCEPT !.disks = Append(os.disks, m)])
          \/ /\ Len(os.disks) > 0
             /\ OsBecomes([os EXCEPT !.disks = SubSeq(os.disks, 1, Len(os.disks) - 1)])
          \/ \E i \in 1..Len(os.disks) : \E m \in AllMounts(i) \ {os.disks[i]} :
                 OsBecomes([os EXCEPT !.disks[i] = m])
    \/ /\ scenario = "mixed"
       /\ \E d \in DiskValues(scenario) \ {os.disks} : OsBecomes([os EXCEPT !.disks = d])

OsProcessChange ==
    \E p \in ProcValues(scenario) \ {os.procs} : OsBecomes([os EXCEPT !.procs = p])

\* A name becomes available or unavailable, or the uptime advances.
OsIdentChange ==
    /\ scenario = "identity"
    /\ \/ \E n \in {None, Some("Linux")} \ {os.ident.name} :
              OsBecomes([os EXCEPT !.ident.name = n])
       \/ \E v \in {None, Some("6.1")} \ {os.ident.os_version} :
              OsBecomes([os EXCEPT !.ident.os_version = v])
       \/ \E k \in {None, Some("6.1.0-18")} \ {os.ident.kernel_version} :
              OsBecomes([os EXCEPT !.ident.kernel_version = k])
       \/ \E h \in {None, Some("host")} \ {os.ident.host_name} :
              OsBecomes([os EXCEPT !.ident.host_name = h])
       \/ /\ os.ident.uptime < MaxUptime
          /\ OsBecomes([os EXCEPT !.ident.uptime = @ + 1])

\* ------------------------------------------------------------------ specifications
InitWith(mode) ==
    /\ target \in Targets
    /\ scenario \in Scenarios
    /\ serializer = mode
    /\ os \in OsStates(scenario)
    /\ sys = SystemMonitor_new(target, os)
    /\ call = Returned("new", Unit, FALSE, FALSE)

\* The state after SystemMonitor::new(), serde_json never failing (the records
\* hold strings and numbers only).
Init == InitWith("infallible")

\* The same, serde_json::to_string being able to return Err.
InitFault == InitWith("fallible")

Next ==
    \/ new
    \/ refresh
    \/ get_system_info
    \/ get_memory_info
    \/ list_disks
    \/ get_cpu_info
    \/ OsMemoryChange
    \/ OsCpuChange
    \/ OsDiskChange
    \/ OsProcessChange
    \/ OsIdentChange

Spec == Init /\ [][Next]_vars

SpecFault == InitFault /\ [][Next]_vars

\* ------------------------------------------------------------------ claims
Native == target = "native"
Members == call.ret.members
Elements == call.ret.elements

\* C1: every memory record get_memory_info returns has 0.0 <= usage_percent <= 100.0,
\* whatever total, used and available the collaborator reports.  The code divides
\* used by total without a clamp, so a reported used > total > 0 gives more than 100.
C1_MemoryUsagePercentInRange ==
    call.op = "get_memory_info" => InPercentRange(Members.usage_percent)

\* C2: every disk record list_disks returns has 0.0 <= usage_percent <= 100.0, also
\* for a mount whose available_space exceeds its total_space.
C2_DiskUsagePercentInRange ==
    call.op = "list_disks" =>
        \A i \in 1..Len(Elements) : InPercentRange(Elements[i].usage_percent)

\* A list_disks that returned a mount reported with available_space > total_space > 0.
C2_Witness ==
    /\ Native
    /\ call.op = "list_disks"
    /\ \E i \in 1..Len(Elements) :
           /\ Elements[i].total_space > 0
           /\ Elements[i].available_space > Elements[i].total_space

SystemInfoFields ==
    {"os", "os_version", "kernel_version", "hostname", "cpu_count", "total_memory",
     "used_memory", "uptime"}
MemoryInfoFields == {"total", "used", "available", "usage_percent"}

\* C3: every public operation can be taken in every reachable state; a query returns
\* a JSON document, an object for get_system_info and get_memory_info (with all the
\* fields of its record when serialization succeeded) and an array for list_disks and
\* get_cpu_info; when serialization fails the result is exactly "{}", respectively "[]".
C3_OperationsTotalAndWellFormed ==
    /\ ENABLED new /\ ENABLED refresh
    /\ ENABLED get_system_info /\ ENABLED get_memory_info
    /\ ENABLED list_disks /\ ENABLED get_cpu_info
    /\ call.op \in {"get_system_info", "get_memory_info"} =>
           /\ call.ret.kind = "object"
           /\ call.failed => call.ret = EmptyObject
           /\ ~call.failed =>
                  DOMAIN Members = IF call.op = "get_system_info"
                                   THEN SystemInfoFields ELSE MemoryInfoFields
    /\ call.op \in {"list_disks", "get_cpu_info"} =>
           /\ call.ret.kind = "array"
           /\ call.failed => call.ret = EmptyArray

\* A get_system_info whose serialization failed and that returned "{}".
C3_Witness ==
    /\ Native
    /\ call.op = "get_system_info"
    /\ call.failed
    /\ call.ret = EmptyObject

\* C4: on wasm32 every query returns its fixed result in every state: get_cpu_info
\* and list_disks the empty sequence, get_memory_info zeros with usage_percent 0.0,
\* get_system_info zero counts and the placeholder strings; the monitor has no state
\* for refresh to change.
C4_SandboxedQueriesFixed ==
    target = "wasm32" =>
        /\ sys = NoSys
        /\ call.op = "get_cpu_info" => call.ret = EmptyArray
        /\ call.op = "list_disks" => call.ret = EmptyArray
        /\ call.op = "get_memory_info" =>
               /\ call.ret.kind = "object"
               /\ Members.total = 0 /\ Members.used = 0 /\ Members.available = 0
               /\ Members.usage_percent = F64Zero
        /\ call.op = "get_system_info" =>
               /\ call.ret.kind = "object"
               /\ Members.cpu_count = 0 /\ Members.total_memory = 0
               /\ Members.used_memory = 0 /\ Members.uptime = 0
               /\ Members.os = "WASM" /\ Members.os_version = "N/A"
               /\ Members.kernel_version = "N/A" /\ Members.hostname = "browser"

\* A get_memory_info on wasm32 while the operating system has memory in use.
C4_Witness ==
    /\ target = "wasm32"
    /\ call.op = "get_memory_info"
    /\ os.mem.total > 0 /\ os.mem.used > 0

\* C5: on a native target every query returns the operating system's values of the
\* moment of the call: the memory counters in get_memory_info and get_system_info,
\* the cores in get_cpu_info, the mounts in list_disks.
C5_QueriesReflectCallTime ==
    Native =>
        /\ call.op = "get_memory_info" =>
               /\ Members.total = os.mem.total
               /\ Members.used = os.mem.used
               /\ Members.available = os.mem.available
        /\ call.op = "get_system_info" =>
               /\ Members.total_memory = os.mem.total
               /\ Members.used_memory = os.mem.used
               /\ Members.cpu_count = Len(os.cpus)
        /\ call.op = "get_cpu_info" =>
               /\ Len(Elements) = Len(os.cpus)
               /\ \A i \in 1..Len(os.cpus) :
                      /\ Elements[i].usage = os.cpus[i].usage
                      /\ Elements[i].frequency = os.cpus[i].frequency
        /\ call.op = "list_disks" =>
               /\ Len(Elements) = Len(os.disks)
               /\ \A i \in 1..Len(os.disks) :
                      /\ Elements[i].name = to_string_lossy(os.disks[i].name)
                      /\ Elements[i].mount_point = to_string_lossy(os.disks[i].mount_point)
                      /\ Elements[i].total_space = os.disks[i].total_space
                      /\ Elements[i].available_space = os.disks[i].available_space

\* A get_cpu_info that began with a CPU cache older than the operating system's state.
C5_Witness ==
    /\ Native
    /\ call.op = "get_cpu_info"
    /\ call.stale

\* C6, as stated: each query refreshes only what it needs and leaves the rest of the
\* cache as it was: get_memory_info the memory, get_cpu_info the CPUs, and
\* get_system_info less than a full refresh (the process table, which it does not
\* read, is left alone).
C6_EachQueryRefreshesMinimally ==
    [][Native =>
          /\ call'.op = "get_memory_info" =>
                 sys'.cpus = sys.cpus /\ sys'.procs = sys.procs
          /\ call'.op = "get_cpu_info" =>
                 sys'.mem = sys.mem /\ sys'.procs = sys.procs
          /\ call'.op = "get_system_info" => sys'.procs = sys.procs]_vars

\* C6, amended: get_memory_info refreshes the memory cache only and get_cpu_info the
\* CPU cache only; get_system_info performs a full refresh, as refresh() and new() do.
C6_TargetedRefreshExceptSystemInfo ==
    [][Native =>
          /\ call'.op = "get_memory_info" =>
                 sys'.mem = os.mem /\ sys'.cpus = sys.cpus /\ sys'.procs = sys.procs
          /\ call'.op = "get_cpu_info" =>
                 sys'.cpus = os.cpus /\ sys'.mem = sys.mem /\ sys'.procs = sys.procs
          /\ call'.op \in {"get_system_info", "refresh", "new"} =>
                 sys' = new_all(os)]_vars

\* A get_memory_info that began with a stale memory cache and left the CPU cache and
\* the process table stale.
C6_Witness ==
    /\ Native
    /\ call.op = "get_memory_info"
    /\ call.stale
    /\ sys.cpus # os.cpus
    /\ sys.procs # os.procs

\* C7: list_disks enumerates the mounts of the moment of the call, whatever the cache
\* holds, and leaves the cache (and the operating system) as it was, so that a query
\* after it returns what it would have returned without it.
C7_ListDisksIndependent ==
    [][Native /\ call'.op = "list_disks" =>
          /\ sys' = sys /\ os' = os
          /\ call'.ret = JsonArray(disk_infos(os.disks))]_vars

\* A list_disks that returned a mount while the memory cache was stale, and left it so.
C7_Witness ==
    /\ Native
    /\ call.op = "list_disks"
    /\ Len(Elements) > 0
    /\ sys.mem # os.mem

\* C8: two consecutive get_memory_info calls with no change of the operating system
\* between them return equal records, the second leaving the cache as the first left
\* it; after refresh(), get_memory_info finds the memory cache as refresh() left it.
C8_ConsecutiveMemoryInfoEqual ==
    [][/\ call.op = "get_memory_info" /\ call'.op = "get_memory_info" =>
              call'.ret = call.ret /\ sys' = sys
       /\ Native /\ call.op = "refresh" /\ call'.op = "get_memory_info" =>
              sys' = sys /\ call'.ret = JsonObject(MemoryInfo(sys))]_vars

\* A get_memory_info that began with the memory cache up to date (a refresh or a
\* get_memory_info came before it, the operating system unchanged since), memory in use.
C8_Witness ==
    /\ Native
    /\ call.op = "get_memory_info"
    /\ ~call.stale
    /\ Members.used > 0 /\ Members.used < Members.total

\* C9: on a native target get_cpu_info returns one entry per core the collaborator
\* reports, in its order, each with the core's name, usage and frequency; a host with
\* a core gives a non-empty sequence.
C9_CpuInfoOneEntryPerCore ==
    Native /\ call.op = "get_cpu_info" =>
        /\ Len(Elements) = Len(os.cpus)
        /\ \A i \in 1..Len(os.cpus) :
               /\ Elements[i].name = os.cpus[i].name
               /\ Elements[i].usage = os.cpus[i].usage
               /\ Elements[i].frequency = os.cpus[i].frequency
        /\ Len(os.cpus) >= 1 => Elements # <<>>

\* A get_cpu_info on a host with several cores whose loads differ.
C9_Witness ==
    /\ Native
    /\ call.op = "get_cpu_info"
    /\ Len(os.cpus) >= 2
    /\ os.cpus[1].usage # os.cpus[2].usage

\* C10: a reported total of 0 gives a usage percent of exactly 0.0 (no division, so
\* neither NaN nor infinity): in get_memory_info, and in list_disks for every mount
\* whose total_space is 0.
C10_ZeroTotalGivesZeroPercent ==
    /\ call.op = "get_memory_info" /\ Members.total = 0 =>
           Members.usage_percent = F64Zero
    /\ call.op = "list_disks" =>
           \A i \in 1..Len(Elements) :
               Elements[i].total_space = 0 => Elements[i].usage_percent = F64Zero

\* A get_memory_info on a native target that reported total = 0 and used > 0.
C10_Witness ==
    /\ Native
    /\ call.op = "get_memory_info"
    /\ Members.total = 0 /\ Members.used > 0

====
